---- MODULE Spec2Model ----
(***************************************************************************)
(* Grocery Item Resolution & Shopping Lifecycle Engine.                    *)
(*                                                                         *)
(* The catalog (categories, products, aliases), the shared shopping list   *)
(* (grocery_items), the history (grocery_history) and the AI service are   *)
(* the state; every request handler is one action.  Strings are sequences  *)
(* of one-character strings so that trimming, lower-casing, the quantity   *)
(* patterns and the plural variants are computed as the code computes      *)
(* them.                                                                   *)
(***************************************************************************)
EXTENDS Integers, Sequences, FiniteSets, TLC

(***************************************************************************)
(* Bounds of the model.                                                    *)
(***************************************************************************)
MaxLines == 2
MaxItemId == 2
MaxHistId == 2
MaxQty == 3
MaxProductId == 3
MaxCategoryId == 4
MaxLineLen == 6

(***************************************************************************)
(* Strings.                                                                *)
(***************************************************************************)
Digits == {"0", "1", "2", "3", "4", "5", "6", "7", "8", "9"}

DigitVal(c) ==
    CASE c = "0" -> 0 [] c = "1" -> 1 [] c = "2" -> 2 [] c = "3" -> 3
      [] c = "4" -> 4 [] c = "5" -> 5 [] c = "6" -> 6 [] c = "7" -> 7
      [] c = "8" -> 8 [] OTHER -> 9

IsSpace(c) == c = " "

\* the upper-case letters of the model's strings
UpperToLower == [c \in {"B", "E", "F", "K", "P", "T"} |->
    CASE c = "B" -> "b" [] c = "E" -> "e" [] c = "F" -> "f" [] c = "K" -> "k"
      [] c = "T" -> "t" [] OTHER -> "p"]

\* String.prototype.toLowerCase / SQL LOWER()
toLowerCase(s) ==
    [i \in 1..Len(s) |-> IF s[i] \in DOMAIN UpperToLower THEN UpperToLower[s[i]] ELSE s[i]]

RECURSIVE TrimLeft(_)
TrimLeft(s) == IF s # <<>> /\ IsSpace(Head(s)) THEN TrimLeft(Tail(s)) ELSE s

RECURSIVE TrimRight(_)
TrimRight(s) ==
    IF s # <<>> /\ IsSpace(s[Len(s)]) THEN TrimRight(SubSeq(s, 1, Len(s) - 1)) ELSE s

\* String.prototype.trim
trim(s) == TrimRight(TrimLeft(s))

endsWith(s, suffix) ==
    /\ Len(s) >= Len(suffix)
    /\ SubSeq(s, Len(s) - Len(suffix) + 1, Len(s)) = suffix

\* parseInt of a string of decimal digits
RECURSIVE parseInt(_)
parseInt(ds) ==
    IF ds = <<>> THEN 0
    ELSE 10 * parseInt(SubSeq(ds, 1, Len(ds) - 1)) + DigitVal(ds[Len(ds)])

\* length of the longest prefix of s whose characters all satisfy the class
RECURSIVE DigitRun(_)
DigitRun(s) == IF s # <<>> /\ Head(s) \in Digits THEN 1 + DigitRun(Tail(s)) ELSE 0

RECURSIVE SpaceRun(_)
SpaceRun(s) == IF s # <<>> /\ IsSpace(Head(s)) THEN 1 + SpaceRun(Tail(s)) ELSE 0

Reverse(s) == [i \in 1..Len(s) |-> s[Len(s) + 1 - i]]

Drop(s, n) == SubSeq(s, n + 1, Len(s))

(***************************************************************************)
(* Lexical Normalizer: ProductService.parseLineForProduct.                 *)
(***************************************************************************)
\* /^(\d+)\s+(.+)$/ : [matched, digits, rest]
qtyFirstMatch(trimmed) ==
    LET d == DigitRun(trimmed)
        w == SpaceRun(Drop(trimmed, d))
    IN  IF d >= 1 /\ w >= 1 /\ Len(trimmed) > d + w
        THEN [matched |-> TRUE, digits |-> SubSeq(trimmed, 1, d),
              rest |-> Drop(trimmed, d + w)]
        ELSE [matched |-> FALSE, digits |-> <<>>, rest |-> <<>>]

\* /^(.+)\s+(\d+)$/ : [matched, digits, rest]; the greedy (.+) leaves one
\* white-space character to \s+
qtyLastMatch(trimmed) ==
    LET r == Reverse(trimmed)
        d == DigitRun(r)
        w == SpaceRun(Drop(r, d))
    IN  IF d >= 1 /\ w >= 1 /\ Len(trimmed) > d + w
        THEN [matched |-> TRUE,
              digits |-> SubSeq(trimmed, Len(trimmed) - d + 1, Len(trimmed)),
              rest |-> SubSeq(trimmed, 1, Len(trimmed) - d - 1)]
        ELSE [matched |-> FALSE, digits |-> <<>>, rest |-> <<>>]

parseLineForProductTrailingFirst(line) ==
    LET trimmed == trim(line)
        m1 == qtyFirstMatch(trimmed)
        m2 == qtyLastMatch(trimmed)
    IN  IF m2.matched /\ Len(trim(m2.rest)) > 0
        THEN [quantity |-> parseInt(m2.digits), term |-> trim(m2.rest)]
        ELSE IF m1.matched /\ Len(trim(m1.rest)) > 0
        THEN [quantity |-> parseInt(m1.digits), term |-> trim(m1.rest)]
        ELSE [quantity |-> 1, term |-> trimmed]

parseLineForProduct(line) ==
    LET trimmed == trim(line)
        m1 == qtyFirstMatch(trimmed)
        m2 == qtyLastMatch(trimmed)
    IN  IF m1.matched /\ Len(trim(m1.rest)) > 0
        THEN [quantity |-> parseInt(m1.digits), term |-> trim(m1.rest)]
        ELSE IF m2.matched /\ Len(trim(m2.rest)) > 0
        THEN [quantity |-> parseInt(m2.digits), term |-> trim(m2.rest)]
        ELSE [quantity |-> 1, term |-> trimmed]

(***************************************************************************)
(* Catalog Resolver: Product.getPluralVariants, Product.lookup.            *)
(***************************************************************************)
\* [...new Set(variants)]: first occurrences, in order
RECURSIVE Dedup(_)
Dedup(seq) ==
    IF seq = <<>> THEN <<>>
    ELSE LET init == Dedup(SubSeq(seq, 1, Len(seq) - 1))
             x == seq[Len(seq)]
         IN  IF \E i \in 1..Len(init) : init[i] = x THEN init ELSE Append(init, x)

getPluralVariants(term) ==
    Dedup(IF endsWith(term, <<"s">>) /\ Len(term) > 2
          THEN IF endsWith(term, <<"e", "s">>) /\ Len(term) > 3
               THEN <<term, SubSeq(term, 1, Len(term) - 1), SubSeq(term, 1, Len(term) - 2)>>
               ELSE <<term, SubSeq(term, 1, Len(term) - 1)>>
          ELSE <<term, term \o <<"s">>>>)

NoProduct == 0

\* the products are rows [id, name, category_id]; names are unique up to case
findByName(prods, name) ==
    LET hits == {p \in prods : toLowerCase(p.name) = toLowerCase(name)}
    IN  IF hits = {} THEN NoProduct ELSE (CHOOSE p \in hits : TRUE).id

\* the aliases are rows [product_id, alias]; alias texts are unique
findByAlias(als, alias) ==
    LET hits == {a \in als : toLowerCase(a.alias) = toLowerCase(alias)}
    IN  IF hits = {} THEN NoProduct ELSE (CHOOSE a \in hits : TRUE).product_id

RECURSIVE lookupVariants(_, _, _)
lookupVariants(prods, als, variants) ==
    IF variants = <<>> THEN NoProduct
    ELSE LET byName == findByName(prods, Head(variants))
             byAlias == findByAlias(als, Head(variants))
         IN  IF byName # NoProduct THEN byName
             ELSE IF byAlias # NoProduct THEN byAlias
             ELSE lookupVariants(prods, als, Tail(variants))

lookupExactOnly(prods, als, term) ==
    lookupVariants(prods, als, <<trim(toLowerCase(term))>>)

lookup(prods, als, term) ==
    lookupVariants(prods, als, getPluralVariants(trim(toLowerCase(term))))

(***************************************************************************)
(* Concrete strings of the model.                                          *)
(***************************************************************************)
sPom == <<"P", "o", "m">>
sFig == <<"F", "i", "g">>
sFruits == <<"F", "r", "u", "i", "t", "s">>
sExo == <<"E", "x", "o">>
sKiwi == <<"K", "i", "w", "i">>
sBio == <<"B", "i", "o">>

\* the input lines a request may contain
Lines == {
    <<"1", " ", "p", "o", "m", "s">>,
    <<" ", "k", "i", "w">>,
    <<"0", " ", "k", "i", "w", "i">>}

\* raw items of an external response: an absent field is the empty string,
\* an absent quantity the empty tuple
aiKiwi == [article |-> <<"K", "i", "w", "i", " ">>, category |-> <<"B", "i", "o">>,
           quantity |-> <<>>]
aiNoArticle == [article |-> <<>>, category |-> sExo, quantity |-> <<>>]

aiNoCategory == [article |-> sFig, category |-> <<>>, quantity |-> <<>>]

\* an item whose quantity is a negative number
aiNegative == [article |-> sKiwi, category |-> sBio, quantity |-> <<-2>>]

AIItems == {aiKiwi, aiNoArticle, aiNoCategory}

\* messages of the errors the external capability raises
ExternalErrors == {"quota exceeded", "internal error"}

NoNote == "null"
Notes == {NoNote}
Statuses == {"pending", "selected", "found", "not_found"}
BatchIds == {"b1", "b2"}
SessionIds == {"s1", "s2"}

(***************************************************************************)
(* Catalog Learner: ProductService.getOrCreateCategory / learnFromAI,      *)
(* Category.findByName / create, Product.create / save / addAlias.         *)
(* A catalog is [categories, products, aliases, nextCategoryId,            *)
(* nextProductId].                                                         *)
(***************************************************************************)
NoCategory == 0

CategoryFindByName(cats, name) ==
    LET hits == {c \in cats : toLowerCase(c.name) = toLowerCase(name)}
    IN  IF hits = {} THEN NoCategory ELSE (CHOOSE c \in hits : TRUE).id

DefaultSortOrder == 50

\* returns [catalog, id]
getOrCreateCategory(cat, categoryName) ==
    LET found == CategoryFindByName(cat.categories, categoryName)
    IN  IF found # NoCategory THEN [catalog |-> cat, id |-> found]
        ELSE [catalog |-> [cat EXCEPT
                  !.categories = @ \cup {[id |-> cat.nextCategoryId, name |-> categoryName,
                                          sort_order |-> DefaultSortOrder]},
                  !.nextCategoryId = @ + 1],
              id |-> cat.nextCategoryId]

\* addAlias whose INSERT takes the alias over from the product that has it
addAliasTakingOver(cat, productId, alias) ==
    LET normalized == trim(toLowerCase(alias))
        product == CHOOSE p \in cat.products : p.id = productId
    IN  IF normalized = toLowerCase(product.name) THEN cat
        ELSE [cat EXCEPT !.aliases = {a \in @ : a.alias # normalized}
                                       \cup {[product_id |-> productId, alias |-> normalized]}]

\* INSERT ... ON CONFLICT (alias) DO NOTHING, after the own-name check
addAlias(cat, productId, alias) ==
    LET normalized == trim(toLowerCase(alias))
        product == CHOOSE p \in cat.products : p.id = productId
    IN  IF normalized = toLowerCase(product.name) THEN cat
        ELSE IF \E a \in cat.aliases : a.alias = normalized THEN cat
        ELSE [cat EXCEPT !.aliases = @ \cup {[product_id |-> productId, alias |-> normalized]}]

\* returns [catalog, id]
learnFromAI(cat0, correctName, categoryName, originalInput) ==
    LET c == getOrCreateCategory(cat0, categoryName)
        cat1 == c.catalog
        existing == findByName(cat1.products, correctName)
        cat2 == IF existing # NoProduct
                THEN [cat1 EXCEPT !.products =
                        {IF p.id = existing THEN [p EXCEPT !.category_id = c.id] ELSE p : p \in @}]
                ELSE [cat1 EXCEPT
                        !.products = @ \cup {[id |-> cat1.nextProductId, name |-> correctName,
                                              category_id |-> c.id]},
                        !.nextProductId = @ + 1]
        productId == IF existing # NoProduct THEN existing ELSE cat1.nextProductId
        cat3 == IF originalInput # <<>> /\ toLowerCase(originalInput) # toLowerCase(correctName)
                THEN addAlias(cat2, productId, originalInput)
                ELSE cat2
    IN  [catalog |-> cat3, id |-> productId]

(***************************************************************************)
(* External Parser Adapter: AIService.parseGroceryItems / trackRequest.    *)
(***************************************************************************)
\* String.prototype.includes on the messages of the model
includes(msg, needle) ==
    <<msg, needle>> \in {<<"API key not valid", "API key">>,
                         <<"quota exceeded", "quota">>,
                         <<"network unreachable", "network">>,
                         <<"timeout", "timeout">>,
                         <<"AI response was not valid JSON", "JSON">>,
                         <<"Failed to parse stream", "parse">>}

\* the classification of the outer catch block
errorTypeOf(msg) ==
    IF includes(msg, "API key") THEN "API_KEY_ERROR"
    ELSE IF includes(msg, "quota") \/ includes(msg, "rate") THEN "RATE_LIMIT"
    ELSE IF includes(msg, "network") \/ includes(msg, "fetch") THEN "NETWORK_ERROR"
    ELSE IF includes(msg, "timeout") THEN "TIMEOUT"
    ELSE IF includes(msg, "JSON") \/ includes(msg, "parse") THEN "PARSE_ERROR"
    ELSE "UNKNOWN"

trackRequest(success, errorType) == [success |-> success, errorType |-> errorType]

\* the outer catch block: the logs it adds to those already written
outerCatch(logs, msg) ==
    IF errorTypeOf(msg) \in {"UNKNOWN", "API_KEY_ERROR", "RATE_LIMIT", "NETWORK_ERROR", "TIMEOUT"}
    THEN Append(logs, trackRequest(FALSE, errorTypeOf(msg)))
    ELSE logs

\* parseInt(item.quantity) || 1
coerceQuantity(q) == IF q = <<>> \/ q[1] = 0 THEN 1 ELSE q[1]

validateItem(item) ==
    [article |-> trim(item.article), quantity |-> coerceQuantity(item.quantity),
     category |-> trim(item.category)]

\* The responses of the external capability: an error it raises, a text that
\* is not JSON, a JSON value that is not an array, or an array of raw items.
ResponsesOf(aiItems, maxLen) ==
    [kind : {"throw"}, msg : ExternalErrors, items : {<<>>}]
      \cup [kind : {"text", "value"}, msg : {""}, items : {<<>>}]
      \cup [kind : {"array"}, msg : {""},
            items : UNION {[1..n -> aiItems] : n \in 0..maxLen}]

Responses(maxLen) == ResponsesOf(AIItems, maxLen)

\* the try block: the request to the model and the validation of its
\* response.  Returns [ok, items, logs, externalCalls, err].
generateAndValidate(response) ==
    IF response.kind = "throw"
    THEN [ok |-> FALSE, items |-> <<>>, externalCalls |-> 1,
          logs |-> outerCatch(<<>>, response.msg),
          err |-> "Failed to parse grocery items"]
    ELSE IF response.kind = "text"
    THEN [ok |-> FALSE, items |-> <<>>, externalCalls |-> 1,
          logs |-> outerCatch(<<trackRequest(FALSE, "JSON_PARSE_ERROR")>>,
                              "AI response was not valid JSON"),
          err |-> "Failed to parse grocery items"]
    ELSE IF response.kind = "value"
    THEN [ok |-> FALSE, items |-> <<>>, externalCalls |-> 1,
          logs |-> outerCatch(<<trackRequest(FALSE, "INVALID_RESPONSE_STRUCTURE")>>,
                              "AI response was not an array"),
          err |-> "Failed to parse grocery items"]
    ELSE IF \E i \in 1..Len(response.items) :
                response.items[i].article = <<>> \/ response.items[i].category = <<>>
    THEN [ok |-> FALSE, items |-> <<>>, externalCalls |-> 1,
          logs |-> outerCatch(<<>>, "AI response missing required fields"),
          err |-> "Failed to parse grocery items"]
    ELSE [ok |-> TRUE, items |-> [i \in 1..Len(response.items) |-> validateItem(response.items[i])],
          externalCalls |-> 1, logs |-> <<trackRequest(TRUE, "none")>>, err |-> "none"]

\* parseGroceryItems without the initialization check: the request is
\* attempted on the unset model and the error it raises is caught
parseGroceryItemsUnchecked(initialized, response) ==
    IF ~initialized
    THEN [ok |-> FALSE, items |-> <<>>, externalCalls |-> 0,
          logs |-> outerCatch(<<>>, "internal error"),
          err |-> "Failed to parse grocery items"]
    ELSE generateAndValidate(response)

\* returns [ok, items, logs, externalCalls, err]
parseGroceryItems(initialized, response) ==
    IF ~initialized
    THEN [ok |-> FALSE, items |-> <<>>, externalCalls |-> 0,
          logs |-> <<trackRequest(FALSE, "NOT_INITIALIZED")>>,
          err |-> "AI Service not initialized"]
    ELSE generateAndValidate(response)

(***************************************************************************)
(* ListEntry store: GroceryItem.                                           *)
(* A list entry is [id, product_id, quantity, status, batch_id, note].     *)
(***************************************************************************)
NoBatch == "null"

\* new GroceryItem(data): quantity || 1, status || 'pending', note || null
GroceryItemSelected(id, productId, quantity, batchId, note) ==
    [id |-> id, product_id |-> productId, quantity |-> IF quantity = 0 THEN 1 ELSE quantity,
     status |-> "selected", batch_id |-> batchId, note |-> note]

GroceryItem(id, productId, quantity, batchId, note) ==
    [id |-> id, product_id |-> productId,
     quantity |-> IF quantity = 0 THEN 1 ELSE quantity,
     status |-> "pending", batch_id |-> batchId, note |-> note]

\* WHERE product_id = $2 AND status != 'found': the rows the query returns;
\* the handler takes rows[0], and the query has no ORDER BY
findByProduct(its, productId) ==
    {e \in its : e.product_id = productId /\ e.status # "found"}

\* findByStatus without the status condition
findByStatusUnfiltered(its, status) == its

\* WHERE status = $2
findByStatus(its, status) == {e \in its : e.status = status}

(***************************************************************************)
(* Batch pipeline: GroceryService.parseAndAddItems.                        *)
(***************************************************************************)
\* ProductService.parseLines: [found, notFound]
RECURSIVE parseLines(_, _, _)
parseLines(prods, als, lines) ==
    IF lines = <<>> THEN [found |-> <<>>, notFound |-> <<>>]
    ELSE LET init == parseLines(prods, als, SubSeq(lines, 1, Len(lines) - 1))
             parsed == parseLineForProduct(lines[Len(lines)])
             product == lookup(prods, als, parsed.term)
         IN  IF product # NoProduct
             THEN [init EXCEPT !.found =
                      Append(@, [product_id |-> product, quantity |-> parsed.quantity])]
             ELSE [init EXCEPT !.notFound =
                      Append(@, [term |-> parsed.term, quantity |-> parsed.quantity])]

\* original.quantity || parsed.quantity || 1
aiItemQuantity(originalQty, parsedQty) ==
    IF originalQty # 0 THEN originalQty ELSE IF parsedQty # 0 THEN parsedQty ELSE 1

\* the loop over aiParsed: reading notFound[i] past its end raises a
\* TypeError after the earlier results have been learned.
\* Returns [catalog, aiItems, threw].
RECURSIVE processAIResults(_, _, _, _)
processAIResults(cat, aiParsed, notFound, i) ==
    IF i > Len(aiParsed) THEN [catalog |-> cat, aiItems |-> <<>>, threw |-> FALSE]
    ELSE IF aiParsed[i].article = <<>> \/ aiParsed[i].category = <<>>
    THEN processAIResults(cat, aiParsed, notFound, i + 1)
    ELSE IF i > Len(notFound) THEN [catalog |-> cat, aiItems |-> <<>>, threw |-> TRUE]
    ELSE LET learned == learnFromAI(cat, aiParsed[i].article, aiParsed[i].category,
                                    notFound[i].term)
             rest == processAIResults(learned.catalog, aiParsed, notFound, i + 1)
         IN  [rest EXCEPT !.aiItems =
                <<[product_id |-> learned.id,
                   quantity |-> aiItemQuantity(notFound[i].quantity, aiParsed[i].quantity)]>>
                \o @]

\* aiFallback calling the parser a second time when the first call fails
aiFallbackRetry(cat, initialized, notFound, response) ==
    IF notFound = <<>>
    THEN [ok |-> TRUE, err |-> "none", catalog |-> cat, aiItems |-> <<>>,
          parserCalls |-> 0, externalCalls |-> 0, logs |-> <<>>, responseLen |-> -1]
    ELSE LET r == parseGroceryItems(initialized, response)
             p == processAIResults(cat, r.items, notFound, 1)
         IN  IF ~r.ok
             THEN [ok |-> FALSE, err |-> r.err, catalog |-> cat, aiItems |-> <<>>,
                   parserCalls |-> 2, externalCalls |-> 2 * r.externalCalls,
                   logs |-> r.logs \o r.logs, responseLen |-> -1]
             ELSE [ok |-> ~p.threw, err |-> IF p.threw THEN "TypeError" ELSE "none",
                   catalog |-> p.catalog, aiItems |-> p.aiItems,
                   parserCalls |-> 1, externalCalls |-> r.externalCalls, logs |-> r.logs,
                   responseLen |-> Len(r.items)]

\* aiFallback catching the parser's error and going on with the lines that
\* were resolved locally
aiFallbackSwallow(cat, initialized, notFound, response) ==
    IF notFound = <<>>
    THEN [ok |-> TRUE, err |-> "none", catalog |-> cat, aiItems |-> <<>>,
          parserCalls |-> 0, externalCalls |-> 0, logs |-> <<>>, responseLen |-> -1]
    ELSE LET r == parseGroceryItems(initialized, response)
             p == processAIResults(cat, r.items, notFound, 1)
         IN  IF ~r.ok
             THEN [ok |-> TRUE, err |-> r.err, catalog |-> cat, aiItems |-> <<>>,
                   parserCalls |-> 1, externalCalls |-> r.externalCalls, logs |-> r.logs,
                   responseLen |-> -1]
             ELSE [ok |-> ~p.threw, err |-> IF p.threw THEN "TypeError" ELSE "none",
                   catalog |-> p.catalog, aiItems |-> p.aiItems,
                   parserCalls |-> 1, externalCalls |-> r.externalCalls, logs |-> r.logs,
                   responseLen |-> Len(r.items)]

\* Step 2 of parseAndAddItems: nothing is sent when every line was resolved;
\* an error of the parser, or of the loop over its results, ends the call.
\* Returns [ok, err, catalog, aiItems, parserCalls, externalCalls, logs, responseLen].
aiFallback(cat, initialized, notFound, response) ==
    IF notFound = <<>>
    THEN [ok |-> TRUE, err |-> "none", catalog |-> cat, aiItems |-> <<>>,
          parserCalls |-> 0, externalCalls |-> 0, logs |-> <<>>, responseLen |-> -1]
    ELSE LET r == parseGroceryItems(initialized, response)
             p == processAIResults(cat, r.items, notFound, 1)
         IN  IF ~r.ok
             THEN [ok |-> FALSE, err |-> r.err, catalog |-> cat, aiItems |-> <<>>,
                   parserCalls |-> 1, externalCalls |-> r.externalCalls, logs |-> r.logs,
                   responseLen |-> -1]
             ELSE [ok |-> ~p.threw, err |-> IF p.threw THEN "TypeError" ELSE "none",
                   catalog |-> p.catalog, aiItems |-> p.aiItems,
                   parserCalls |-> 1, externalCalls |-> r.externalCalls, logs |-> r.logs,
                   responseLen |-> Len(r.items)]

\* Step 4 of parseAndAddItems: the outcomes [items, nextItemId], one for each
\* row findByProduct may return first.
RECURSIVE reconcile(_, _, _, _)
reconcile(its, nextId, allItems, batchId) ==
    IF allItems = <<>> THEN {[items |-> its, nextItemId |-> nextId]}
    ELSE LET item == Head(allItems)
             existing == findByProduct(its, item.product_id)
         IN  IF existing # {}
             THEN UNION {reconcile((its \ {e}) \cup
                                     {[e EXCEPT !.quantity = @ + item.quantity,
                                                !.batch_id = batchId]},
                                   nextId, Tail(allItems), batchId) : e \in existing}
             ELSE reconcile(its \cup {GroceryItem(nextId, item.product_id, item.quantity,
                                                  batchId, NoNote)},
                            nextId + 1, Tail(allItems), batchId)

(***************************************************************************)
(* Lifecycle: GroceryService.completeShoppingSession, addItemByProduct,    *)
(* the status / edit / delete routes and the restore route.                *)
(* A history record is [id, product_id, product_name, category_name,       *)
(* quantity, status, shopping_session_id].                                 *)
(***************************************************************************)
NoName == <<>>

\* the joins of GroceryItem.baseQuery
productName(prods, productId) == (CHOOSE p \in prods : p.id = productId).name

categoryName(cats, prods, productId) ==
    LET cid == (CHOOSE p \in prods : p.id = productId).category_id
    IN  IF \E c \in cats : c.id = cid THEN (CHOOSE c \in cats : c.id = cid).name ELSE NoName

\* the orders in which a query may return a set of rows
Orders(rows) ==
    {f \in [1..Cardinality(rows) -> rows] : \A r \in rows : \E i \in DOMAIN f : f[i] = r}

\* The first `writes` statements of the loop over itemsToArchive (an INSERT
\* and a DELETE for each entry) applied to [items, history, nextHistId].
RECURSIVE archiveWrites(_, _, _, _, _, _)
archiveWrites(db, cats, prods, toArchive, sessionId, writes) ==
    IF toArchive = <<>> \/ writes = 0 THEN db
    ELSE LET item == Head(toArchive)
             inserted == [db EXCEPT
                 !.history = @ \cup {[id |-> db.nextHistId, product_id |-> item.product_id,
                     product_name |-> productName(prods, item.product_id),
                     category_name |-> categoryName(cats, prods, item.product_id),
                     quantity |-> item.quantity, status |-> item.status,
                     shopping_session_id |-> sessionId]},
                 !.nextHistId = @ + 1]
             deleted == [inserted EXCEPT !.items = {e \in @ : e.id # item.id}]
         IN  IF writes = 1 THEN inserted
             ELSE archiveWrites(deleted, cats, prods, Tail(toArchive), sessionId, writes - 2)

\* db.withTransaction: BEGIN, the callback, then COMMIT, or ROLLBACK when the
\* callback raises
withTransaction(before, after, raised) == IF raised THEN before ELSE after

\* completeShoppingSession issuing its statements outside a transaction
completeShoppingSessionNoTransaction(db, cats, prods, foundItems, notFoundItems, sessionId, failAt) ==
    LET itemsToArchive == foundItems \o notFoundItems
        writes == IF failAt = 0 THEN 2 * Len(itemsToArchive) ELSE failAt - 1
        after == archiveWrites(db, cats, prods, itemsToArchive, sessionId, writes)
    IN  IF failAt = 0
        THEN [ok |-> TRUE, db |-> after, archivedCount |-> Len(itemsToArchive),
              foundCount |-> Len(foundItems), notFoundCount |-> Len(notFoundItems)]
        ELSE [ok |-> FALSE, db |-> after, archivedCount |-> 0, foundCount |-> 0,
              notFoundCount |-> 0]

\* failAt = 0: every statement succeeds; failAt = k: the k-th statement raises.
\* Returns [ok, db, archivedCount, foundCount, notFoundCount].
completeShoppingSession(db, cats, prods, foundItems, notFoundItems, sessionId, failAt) ==
    LET itemsToArchive == foundItems \o notFoundItems
        writes == IF failAt = 0 THEN 2 * Len(itemsToArchive) ELSE failAt - 1
        after == archiveWrites(db, cats, prods, itemsToArchive, sessionId, writes)
    IN  IF failAt = 0
        THEN [ok |-> TRUE, db |-> withTransaction(db, after, FALSE),
              archivedCount |-> Len(itemsToArchive),
              foundCount |-> Len(foundItems), notFoundCount |-> Len(notFoundItems)]
        ELSE [ok |-> FALSE, db |-> withTransaction(db, after, TRUE),
              archivedCount |-> 0, foundCount |-> 0, notFoundCount |-> 0]

\* addItemByProduct putting the entry it merges into back to pending
addItemByProductReopening(its, nextId, productId, quantity, note) ==
    LET existing == findByProduct(its, productId)
    IN  IF existing # {}
        THEN {[items |-> (its \ {e}) \cup
                    {[e EXCEPT !.quantity = @ + quantity, !.status = "pending",
                               !.note = IF note # NoNote THEN note ELSE @]},
               nextItemId |-> nextId, item |-> e.id] : e \in existing}
        ELSE {[items |-> its \cup {GroceryItem(nextId, productId, quantity, NoBatch, note)},
               nextItemId |-> nextId + 1, item |-> nextId]}

\* GroceryService.addItemByProduct on an existing product: the outcomes
\* [items, nextItemId, item]
addItemByProduct(its, nextId, productId, quantity, note) ==
    LET existing == findByProduct(its, productId)
    IN  IF existing # {}
        THEN {[items |-> (its \ {e}) \cup
                    {[e EXCEPT !.quantity = @ + quantity,
                               !.note = IF note # NoNote THEN note ELSE @]},
               nextItemId |-> nextId, item |-> e.id] : e \in existing}
        ELSE {[items |-> its \cup {GroceryItem(nextId, productId, quantity, NoBatch, note)},
               nextItemId |-> nextId + 1, item |-> nextId]}

\* POST /menu/add-to-groceries, the loop over product_ids: a product with an
\* open entry is skipped, another gets a row with the defaults of the table
\* (quantity 1, status pending); the INSERT of an unknown product id raises
\* (foreign key) after the earlier rows were written.
\* Returns [items, nextItemId, addedCount, ok].
RECURSIVE addToGroceries(_, _, _, _, _)
addToGroceries(its, nextId, prods, productIds, batchId) ==
    IF productIds = <<>>
    THEN [items |-> its, nextItemId |-> nextId, addedCount |-> 0, ok |-> TRUE]
    ELSE LET productId == Head(productIds)
         IN  IF findByProduct(its, productId) # {}
             THEN addToGroceries(its, nextId, prods, Tail(productIds), batchId)
             ELSE IF ~\E p \in prods : p.id = productId
             THEN [items |-> its, nextItemId |-> nextId, addedCount |-> 0, ok |-> FALSE]
             ELSE LET rest == addToGroceries(
                                its \cup {[id |-> nextId, product_id |-> productId,
                                           quantity |-> 1, status |-> "pending",
                                           batch_id |-> batchId, note |-> NoNote]},
                                nextId + 1, prods, Tail(productIds), batchId)
                  IN  [rest EXCEPT !.addedCount = IF rest.ok THEN @ + 1 ELSE 0]

\* GroceryItem.updateStatus
updateStatus(its, id, status) ==
    {IF e.id = id THEN [e EXCEPT !.status = status] ELSE e : e \in its}

\* restoreItem overwriting the quantity of the existing entry
restoreItemOverwrite(its, nextId, productId, quantity) ==
    LET existing == findByProduct(its, productId)
    IN  IF existing # {}
        THEN {[items |-> (its \ {e}) \cup {[e EXCEPT !.quantity = quantity]},
               nextItemId |-> nextId, item |-> e.id] : e \in existing}
        ELSE {[items |-> its \cup {GroceryItem(nextId, productId, quantity, NoBatch, NoNote)},
               nextItemId |-> nextId + 1, item |-> nextId]}

\* POST /:id/restore once the product id is known: the outcomes
\* [items, nextItemId, item]
restoreItem(its, nextId, productId, quantity) ==
    LET existing == findByProduct(its, productId)
    IN  IF existing # {}
        THEN {[items |-> (its \ {e}) \cup {[e EXCEPT !.quantity = @ + quantity]},
               nextItemId |-> nextId, item |-> e.id] : e \in existing}
        ELSE {[items |-> its \cup {GroceryItem(nextId, productId, quantity, NoBatch, NoNote)},
               nextItemId |-> nextId + 1, item |-> nextId]}

\* restoreProduct without the look-up by name
restoreProductByIdOnly(prods, h) == h.product_id

\* the product a history record is restored to: its product id, else the
\* product of that name, else none
restoreProduct(prods, h) ==
    IF h.product_id # NoProduct THEN h.product_id ELSE findByName(prods, h.product_name)

(***************************************************************************)
(* State.                                                                  *)
(***************************************************************************)
VARIABLES
    categories,      \* rows of the categories table
    products,        \* rows of the products table
    aliases,         \* rows of the product_aliases table
    nextCategoryId,  \* the SERIAL sequences
    nextProductId,
    items,           \* rows of the grocery_items table
    nextItemId,
    history,         \* rows of the grocery_history table
    nextHistId,
    model,           \* AIService.model is set
    inflight,        \* the calls in progress: what each has read so far
    cache,           \* AIService.cachedCategories and cacheExpiry
    last             \* the request handled last and what it returned

vars == <<categories, products, aliases, nextCategoryId, nextProductId,
          items, nextItemId, history, nextHistId, model, inflight, cache, last>>

catalogVars == <<categories, products, aliases, nextCategoryId, nextProductId>>

NoSession == "null"

\* the request handlers that run at the same time
Callers == {1, 2}

NoCall ==
    [op |-> "none", pc |-> "idle", product_id |-> 0, quantity |-> 0, existing |-> {},
     foundItems |-> <<>>, notFoundItems |-> <<>>, sessionId |-> NoSession]

NoCalls == [c \in Callers |-> NoCall]

\* cachedCategories is <<>> for null and <<names>> otherwise; cacheExpiry is
\* "null", or lies in the "future" or in the "past" of Date.now()
NoCache == [cachedCategories |-> <<>>, cacheExpiry |-> "null"]

\* Category.findAll().map(c => c.name)
findAllNames(cats) == {c.name : c \in cats}

\* AIService.getCategoryNames: the cached names while the cache is set and has
\* not expired, the names of the table otherwise, which are then cached for
\* five minutes.  Returns [names, cache].
getCategoryNames(c, cats) ==
    IF c.cachedCategories # <<>> /\ c.cacheExpiry = "future"
    THEN [names |-> c.cachedCategories[1], cache |-> c]
    ELSE [names |-> findAllNames(cats),
          cache |-> [cachedCategories |-> <<findAllNames(cats)>>, cacheExpiry |-> "future"]]

\* AIService.clearCategoryCache
clearCategoryCache == NoCache

\* parseGroceryItems builds the prompt once it has found the model set
promptCache(c, cats, initialized) ==
    IF initialized THEN getCategoryNames(c, cats).cache ELSE c

NoLast ==
    [op |-> "init", ok |-> TRUE, err |-> "none", batchId |-> NoBatch, allItems |-> <<>>,
     notFound |-> <<>>, responseLen |-> -1, parserCalls |-> 0, externalCalls |-> 0,
     logs |-> <<>>, fromCache |-> 0, fromAI |-> 0, sessionId |-> NoSession,
     archivedCount |-> 0, foundCount |-> 0, notFoundCount |-> 0, hist |-> 0,
     resolved |-> 0, addedCount |-> 0, arg |-> <<>>, ret |-> <<>>]

Catalog ==
    [categories |-> categories, products |-> products, aliases |-> aliases,
     nextCategoryId |-> nextCategoryId, nextProductId |-> nextProductId]

WithinBounds(its, nextId) ==
    /\ nextId <= MaxItemId + 1
    /\ \A e \in its : e.quantity <= MaxQty /\ e.quantity >= -MaxQty

\* the seeded catalog, an empty list and an empty history
Seeded ==
    /\ categories = {[id |-> 1, name |-> sFruits, sort_order |-> 1],
                     [id |-> 2, name |-> sExo, sort_order |-> 2]}
    /\ products = {[id |-> 1, name |-> sPom, category_id |-> 1],
                   [id |-> 2, name |-> sFig, category_id |-> 2]}
    /\ aliases = {}
    /\ nextCategoryId = 3
    /\ nextProductId = 3
    /\ items = {}
    /\ nextItemId = 1
    /\ history = {}
    /\ nextHistId = 1
    /\ last = NoLast

\* AIService.initialize sets the model only when GOOGLE_API_KEY is configured
Init == Seeded /\ model \in BOOLEAN /\ inflight = NoCalls /\ cache = NoCache

(***************************************************************************)
(* Actions: one per request handler.                                       *)
(***************************************************************************)
NoResponse == [kind |-> "throw", msg |-> "internal error", items |-> <<>>]

\* POST /parse: GroceryService.parseAndAddItems.  The lines are resolved
\* (step 1), the unresolved ones go to the parser and its results are learned
\* (step 2), and the batch is reconciled with the list (steps 3 and 4); an
\* error raised on the way ends the call.
ParseAndAddOf(lineSet, aiItems) ==
    \E n \in 1..MaxLines : \E lines \in [1..n -> lineSet] :
    \E parsed \in {parseLines(products, aliases, lines)} :
    \E response \in (IF parsed.notFound # <<>> /\ model
                     THEN ResponsesOf(aiItems, Len(parsed.notFound) + 1)
                     ELSE {NoResponse}) :
    \E ai \in {aiFallback(Catalog, model, parsed.notFound, response)} :
    \E result \in {[NoLast EXCEPT !.op = "parseAndAdd", !.ok = ai.ok, !.err = ai.err,
                      !.notFound = [i \in 1..Len(parsed.notFound) |-> parsed.notFound[i].term],
                      !.resolved = Len(parsed.found),
                      !.responseLen = ai.responseLen, !.parserCalls = ai.parserCalls,
                      !.externalCalls = ai.externalCalls, !.logs = ai.logs]} :
      /\ categories' = ai.catalog.categories
      /\ products' = ai.catalog.products
      /\ aliases' = ai.catalog.aliases
      /\ nextCategoryId' = ai.catalog.nextCategoryId
      /\ nextProductId' = ai.catalog.nextProductId
      /\ cache' = promptCache(cache, categories, parsed.notFound # <<>> /\ model)
      /\ UNCHANGED <<history, nextHistId, model, inflight>>
      /\ IF ai.ok
         THEN \E batchId \in BatchIds :
              \E r \in reconcile(items, nextItemId, parsed.found \o ai.aiItems, batchId) :
                /\ WithinBounds(r.items, r.nextItemId)
                /\ items' = r.items
                /\ nextItemId' = r.nextItemId
                /\ last' = [result EXCEPT !.batchId = batchId,
                              !.allItems = parsed.found \o ai.aiItems,
                              !.fromCache = Len(parsed.found),
                              !.fromAI = Len(ai.aiItems)]
         ELSE /\ last' = result
              /\ UNCHANGED <<items, nextItemId>>

ParseAndAddWith(aiItems) == ParseAndAddOf(Lines, aiItems)

ParseAndAdd == ParseAndAddWith(AIItems)

\* POST /parse when the external capability answers with negative quantities
ParseAndAddNegative == ParseAndAddWith({aiNegative})

AddQuantities == {1, 2}

\* POST / (add single item by product id)
AddSingle ==
    \E productId \in {p.id : p \in products} \cup {nextProductId} :
    \E quantity \in AddQuantities : \E note \in Notes :
      IF \E p \in products : p.id = productId
      THEN \E out \in addItemByProduct(items, nextItemId, productId, quantity, note) :
              /\ WithinBounds(out.items, out.nextItemId)
              /\ items' = out.items
              /\ nextItemId' = out.nextItemId
              /\ last' = [NoLast EXCEPT !.op = "addSingle"]
              /\ UNCHANGED <<catalogVars, history, nextHistId, model, inflight, cache>>
      ELSE /\ last' = [NoLast EXCEPT !.op = "addSingle", !.ok = FALSE,
                                     !.err = "Product not found"]
           /\ UNCHANGED <<catalogVars, items, nextItemId, history, nextHistId, model, inflight, cache>>

\* PATCH /:id/status with a status of the given set
UpdateStatusTo(statuses) ==
    \E e \in items : \E status \in statuses :
      /\ items' = updateStatus(items, e.id, status)
      /\ last' = [NoLast EXCEPT !.op = "updateStatus"]
      /\ UNCHANGED <<catalogVars, nextItemId, history, nextHistId, model, inflight, cache>>

UpdateStatus == UpdateStatusTo(Statuses)

\* the shopper ticks an entry off
MarkFound == UpdateStatusTo({"found"})

EditQuantities == {1, 2}

\* the request bodies of PUT /:id: a field that is absent (or falsy) leaves
\* the column as it is; the bodies of the model set one field
EditBodies ==
    [product_id : {p.id : p \in products}, quantity : {0}, status : {""}]
      \cup [product_id : {0}, quantity : EditQuantities, status : {""}]
      \cup [product_id : {0}, quantity : {0}, status : Statuses]

\* PUT /:id
EditItem ==
    \E e \in items : \E body \in EditBodies :
      /\ items' = (items \ {e}) \cup
            {[e EXCEPT !.product_id = IF body.product_id # 0 THEN body.product_id ELSE @,
                       !.quantity = IF body.quantity # 0 THEN body.quantity ELSE @,
                       !.status = IF body.status # "" THEN body.status ELSE @]}
      /\ last' = [NoLast EXCEPT !.op = "editItem"]
      /\ UNCHANGED <<catalogVars, nextItemId, history, nextHistId, model, inflight, cache>>

\* POST /complete-shopping
CompleteShopping ==
    \E sessionId \in SessionIds :
    \E foundItems \in Orders(findByStatus(items, "found")) :
    \E notFoundItems \in Orders(findByStatus(items, "not_found")) :
    \E failAt \in 0..(2 * (Len(foundItems) + Len(notFoundItems))) :
      LET out == completeShoppingSession(
                     [items |-> items, history |-> history, nextHistId |-> nextHistId],
                     categories, products, foundItems, notFoundItems, sessionId, failAt)
      IN  /\ nextHistId + Len(foundItems) + Len(notFoundItems) <= MaxHistId + 1
          /\ items' = out.db.items
          /\ history' = out.db.history
          /\ nextHistId' = out.db.nextHistId
          /\ last' = [NoLast EXCEPT !.op = "completeShopping", !.ok = out.ok,
                        !.err = IF out.ok THEN "none" ELSE "Failed to complete shopping",
                        !.sessionId = IF out.ok THEN sessionId ELSE NoSession,
                        !.archivedCount = out.archivedCount,
                        !.foundCount = out.foundCount,
                        !.notFoundCount = out.notFoundCount]
          /\ UNCHANGED <<catalogVars, nextItemId, model, inflight, cache>>

\* new GroceryHistory(row): quantity || 1
historyQuantity(h) == IF h.quantity = 0 THEN 1 ELSE h.quantity

\* POST /:id/restore
Restore ==
    \E h \in history :
      LET productId == restoreProduct(products, h)
      IN  IF productId = NoProduct
          THEN /\ last' = [NoLast EXCEPT !.op = "restore", !.ok = FALSE, !.hist = h.id,
                              !.err = "Product no longer exists in catalog"]
               /\ UNCHANGED <<catalogVars, items, nextItemId, history, nextHistId, model, inflight, cache>>
          ELSE \E out \in restoreItem(items, nextItemId, productId, historyQuantity(h)) :
                 /\ WithinBounds(out.items, out.nextItemId)
                 /\ items' = out.items
                 /\ nextItemId' = out.nextItemId
                 /\ last' = [NoLast EXCEPT !.op = "restore", !.hist = h.id]
                 /\ UNCHANGED <<catalogVars, history, nextHistId, model, inflight, cache>>

\* DELETE /products/:id: grocery_items and product_aliases rows go with the
\* product (ON DELETE CASCADE), grocery_history rows lose their product id
\* (ON DELETE SET NULL)
DeleteProduct ==
    \E p \in products :
      /\ products' = products \ {p}
      /\ aliases' = {a \in aliases : a.product_id # p.id}
      /\ items' = {e \in items : e.product_id # p.id}
      /\ history' = {IF h.product_id = p.id THEN [h EXCEPT !.product_id = NoProduct] ELSE h
                     : h \in history}
      /\ last' = [NoLast EXCEPT !.op = "deleteProduct"]
      /\ UNCHANGED <<categories, nextCategoryId, nextProductId, nextItemId, nextHistId, model, inflight, cache>>

\* `menu-${Date.now()}`
MenuBatchIds == {"menu-1"}

\* POST /menu/add-to-groceries
AddToGroceries ==
    \E n \in 1..MaxLines :
    \E productIds \in [1..n -> {p.id : p \in products} \cup {nextProductId}] :
    \E batchId \in MenuBatchIds :
    \E out \in {addToGroceries(items, nextItemId, products, productIds, batchId)} :
      /\ WithinBounds(out.items, out.nextItemId)
      /\ items' = out.items
      /\ nextItemId' = out.nextItemId
      /\ last' = [NoLast EXCEPT !.op = "addToGroceries", !.ok = out.ok,
                    !.err = IF out.ok THEN "none" ELSE "Failed to add products",
                    !.batchId = batchId, !.addedCount = out.addedCount]
      /\ UNCHANGED <<catalogVars, history, nextHistId, model, inflight, cache>>

\* the names a request for a product may carry
ProductNames == {sPom, sKiwi}

\* POST /products (no aliases in the body)
CreateProduct ==
    \E name \in ProductNames : \E categoryId \in {c.id : c \in categories} :
      IF findByName(products, name) # NoProduct
      THEN /\ last' = [NoLast EXCEPT !.op = "createProduct", !.ok = FALSE,
                                     !.err = "Product already exists"]
           /\ UNCHANGED <<catalogVars, items, nextItemId, history, nextHistId, model, inflight, cache>>
      ELSE /\ nextProductId <= MaxProductId
           /\ products' = products \cup {[id |-> nextProductId, name |-> name,
                                           category_id |-> categoryId]}
           /\ nextProductId' = nextProductId + 1
           /\ last' = [NoLast EXCEPT !.op = "createProduct"]
           /\ UNCHANGED <<categories, aliases, nextCategoryId, items, nextItemId,
                          history, nextHistId, model, inflight, cache>>

\* the names a request may rename a product to
NewProductNames == {sKiwi}

\* the request bodies of PUT /products/:id: a name or a category
ProductBodies ==
    [name : NewProductNames, category_id : {0}]
      \cup [name : {<<>>}, category_id : {c.id : c \in categories}]

\* PUT /products/:id that also rewrites the name kept in the history
UpdateProductRenamingHistory ==
    \E p \in products : \E body \in ProductBodies :
      LET updated == [p EXCEPT !.name = IF body.name # <<>> THEN body.name ELSE @,
                               !.category_id = IF body.category_id # 0
                                               THEN body.category_id ELSE @]
      IN  IF \E q \in products \ {p} : q.name = updated.name
          THEN /\ last' = [NoLast EXCEPT !.op = "updateProduct", !.ok = FALSE,
                                         !.err = "Failed to update product"]
               /\ UNCHANGED <<catalogVars, items, nextItemId, history, nextHistId, model, inflight, cache>>
          ELSE /\ products' = (products \ {p}) \cup {updated}
               /\ history' = {IF h.product_id = p.id
                              THEN [h EXCEPT !.product_name = updated.name] ELSE h
                              : h \in history}
               /\ last' = [NoLast EXCEPT !.op = "updateProduct"]
               /\ UNCHANGED <<categories, aliases, nextCategoryId, nextProductId, items,
                              nextItemId, nextHistId, model, inflight, cache>>

\* PUT /products/:id: Product.save; UNIQUE(name) makes the UPDATE fail when
\* another product has the name
UpdateProduct ==
    \E p \in products : \E body \in ProductBodies :
      LET updated == [p EXCEPT !.name = IF body.name # <<>> THEN body.name ELSE @,
                               !.category_id = IF body.category_id # 0
                                               THEN body.category_id ELSE @]
      IN  IF \E q \in products \ {p} : q.name = updated.name
          THEN /\ last' = [NoLast EXCEPT !.op = "updateProduct", !.ok = FALSE,
                                         !.err = "Failed to update product"]
               /\ UNCHANGED <<catalogVars, items, nextItemId, history, nextHistId, model, inflight, cache>>
          ELSE /\ products' = (products \ {p}) \cup {updated}
               /\ last' = [NoLast EXCEPT !.op = "updateProduct"]
               /\ UNCHANGED <<categories, aliases, nextCategoryId, nextProductId, items,
                              nextItemId, history, nextHistId, model, inflight, cache>>

\* the names a request for a category may carry
CategoryNames == {sBio}

\* PUT /products/categories/:id with a name: Category.save; UNIQUE(name)
EditCategory ==
    \E c \in categories : \E name \in CategoryNames :
      IF \E q \in categories \ {c} : q.name = name
      THEN /\ last' = [NoLast EXCEPT !.op = "editCategory", !.ok = FALSE,
                                     !.err = "Failed to update category"]
           /\ UNCHANGED <<catalogVars, items, nextItemId, history, nextHistId, model, inflight, cache>>
      ELSE /\ categories' = (categories \ {c}) \cup {[c EXCEPT !.name = name]}
           /\ cache' = clearCategoryCache
           /\ last' = [NoLast EXCEPT !.op = "editCategory"]
           /\ UNCHANGED <<products, aliases, nextCategoryId, nextProductId, items,
                          nextItemId, history, nextHistId, model, inflight>>

\* The shopping lifecycle of the shared list.
Next ==
    \/ AddSingle
    \/ UpdateStatus
    \/ EditItem
    \/ CompleteShopping
    \/ Restore
    \/ DeleteProduct

Spec == Init /\ [][Next]_vars

\* The parse-and-add pipeline while the shopper ticks entries off.
NextAI ==
    \/ ParseAndAdd
    \/ MarkFound

SpecAI == Init /\ [][NextAI]_vars

\* The parse-and-add pipeline with negative quantities in the responses.
NextNegative ==
    \/ ParseAndAddNegative
    \/ MarkFound

SpecNegative == Init /\ [][NextNegative]_vars

\* a deployment without GOOGLE_API_KEY
InitNoModel == Seeded /\ model = FALSE /\ inflight = NoCalls /\ cache = NoCache

\* Archiving and restoring while products are deleted and created again.
NextRestore ==
    \/ AddSingle
    \/ MarkFound
    \/ CompleteShopping
    \/ Restore
    \/ DeleteProduct
    \/ CreateProduct

SpecRestore == InitNoModel /\ [][NextRestore]_vars

\* a catalog of one product, an empty list and an empty history, in a
\* deployment without GOOGLE_API_KEY
InitOneProduct ==
    /\ categories = {[id |-> 1, name |-> sFruits, sort_order |-> 1],
                     [id |-> 2, name |-> sExo, sort_order |-> 2]}
    /\ products = {[id |-> 1, name |-> sPom, category_id |-> 1]}
    /\ aliases = {}
    /\ nextCategoryId = 3
    /\ nextProductId = 2
    /\ items = {}
    /\ nextItemId = 1
    /\ history = {}
    /\ nextHistId = 1
    /\ model = FALSE
    /\ inflight = NoCalls /\ cache = NoCache
    /\ last = NoLast

\* Every path that creates an entry or writes a status.
NextCreate ==
    \/ ParseAndAdd
    \/ AddSingle
    \/ AddToGroceries
    \/ UpdateStatus
    \/ CompleteShopping
    \/ Restore

SpecCreate == InitOneProduct /\ [][NextCreate]_vars

\* The history of the list while the catalog is edited.
NextHistory ==
    \/ AddSingle
    \/ UpdateStatus
    \/ CompleteShopping
    \/ Restore
    \/ DeleteProduct
    \/ UpdateProduct
    \/ EditCategory

SpecHistory == InitOneProduct /\ [][NextHistory]_vars

(***************************************************************************)
(* Properties.                                                             *)
(***************************************************************************)
\* the open entries of a product: those whose status is not found
open(its, productId) == {e \in its : e.product_id = productId /\ e.status # "found"}

\* the quantity a batch adds for a product
RECURSIVE addedQuantity(_, _)
addedQuantity(allItems, productId) ==
    IF allItems = <<>> THEN 0
    ELSE (IF Head(allItems).product_id = productId THEN Head(allItems).quantity ELSE 0)
           + addedQuantity(Tail(allItems), productId)

\* C1: at every moment, whatever sequence of addSingle, status change, edit,
\* completeShopping and restore has run, a product has at most one open
\* entry in the list.
C1_AtMostOneOpenEntry ==
    \A p \in {e.product_id : e \in items} : Cardinality(open(items, p)) <= 1

\* what C2 asks of a product p of the batch that a successful parseAndAdd
\* step reconciled: one open entry afterwards, stamped with the batch id of
\* the call, whose quantity is that of the open entry the product had (if
\* any) plus every quantity the batch carries for it
mergedInto(p) ==
    /\ Cardinality(open(items', p)) = 1
    /\ \A e \in open(items', p) :
         /\ e.batch_id = last'.batchId
         /\ \/ open(items, p) = {} /\ e.quantity = addedQuantity(last'.allItems, p)
            \/ \E o \in open(items, p) :
                 /\ e.id = o.id
                 /\ e.quantity = o.quantity + addedQuantity(last'.allItems, p)

\* the products of the batch of a parseAndAdd step
batchProducts == {last'.allItems[i].product_id : i \in 1..Len(last'.allItems)}

\* C2: when a parseAndAdd call succeeds, a product of the batch that had at
\* most one open entry before has exactly one open entry afterwards, whose
\* quantity is the quantity of the entry it had (none: 0) plus the quantities
\* q of the batch for it, and whose batch id is that of this call.  Applied
\* to n successive calls from no open entry this gives one open entry of
\* quantity q1 + ... + qn with the batch id of the last call.
C2_RepeatedAddsMerge ==
    [][(last'.op = "parseAndAdd" /\ last'.ok) =>
         \A p \in batchProducts :
           Cardinality(open(items, p)) <= 1 => mergedInto(p)]_vars

\* C2 for the batches whose quantities are all at least one
C2_PositiveQuantitiesMerge ==
    [][(last'.op = "parseAndAdd" /\ last'.ok
          /\ \A i \in 1..Len(last'.allItems) : last'.allItems[i].quantity >= 1) =>
         \A p \in batchProducts :
           Cardinality(open(items, p)) <= 1 => mergedInto(p)]_vars

\* a parseAndAdd call has merged into the entry that an earlier call made
C2_PositiveQuantitiesWitness ==
    /\ last.op = "parseAndAdd"
    /\ last.ok
    /\ \E e \in items :
         /\ e.status # "found"
         /\ e.batch_id = last.batchId
         /\ addedQuantity(last.allItems, e.product_id) >= 1
         /\ e.quantity > addedQuantity(last.allItems, e.product_id)

\* the history records that copy an entry under a session id
archived(e, h, sessionId) ==
    /\ h.shopping_session_id = sessionId
    /\ h.product_id = e.product_id
    /\ h.quantity = e.quantity
    /\ h.status = e.status
    /\ h.product_name = productName(products, e.product_id)
    /\ h.category_name = categoryName(categories, products, e.product_id)

\* C3: a completeShopping call that succeeds with F found and N not_found
\* entries adds exactly F + N history records, all with the session id it
\* returns, one per such entry with its product, names, quantity and status;
\* removes exactly those entries from the list; leaves the pending and
\* selected entries as they are; and reports archivedCount = F + N,
\* foundCount = F and notFoundCount = N.
C3_ArchiveMovesFoundAndNotFound ==
    [][(last'.op = "completeShopping" /\ last'.ok) =>
         LET F == {e \in items : e.status = "found"}
             N == {e \in items : e.status = "not_found"}
             new == history' \ history
         IN  /\ history \subseteq history'
             /\ Cardinality(new) = Cardinality(F) + Cardinality(N)
             /\ \A h \in new : \E e \in F \cup N : archived(e, h, last'.sessionId)
             /\ \A e \in F \cup N : \E h \in new : archived(e, h, last'.sessionId)
             /\ last'.sessionId \in SessionIds
             /\ items' = items \ (F \cup N)
             /\ last'.archivedCount = Cardinality(F) + Cardinality(N)
             /\ last'.foundCount = Cardinality(F)
             /\ last'.notFoundCount = Cardinality(N)]_vars

\* a found and a not_found entry were archived in one session
C3_Witness ==
    /\ last.op = "completeShopping"
    /\ last.ok
    /\ last.foundCount = 1
    /\ last.notFoundCount = 1
    /\ Cardinality({h \in history : h.shopping_session_id = last.sessionId}) = 2

\* C4: a completeShopping call that fails, at whichever statement, leaves the
\* list and the history exactly as they were and returns one error.
C4_ArchiveAllOrNothing ==
    [][(last'.op = "completeShopping" /\ ~last'.ok) =>
         /\ items' = items
         /\ history' = history
         /\ last'.err = "Failed to complete shopping"
         /\ last'.archivedCount = 0]_vars

\* a completeShopping call failed with two entries to archive
C4_Witness ==
    /\ last.op = "completeShopping"
    /\ ~last.ok
    /\ Cardinality({e \in items : e.status \in {"found", "not_found"}}) = 2

\* the error the parser raised
parserFailed(l) ==
    /\ l.op = "parseAndAdd"
    /\ l.parserCalls >= 1
    /\ l.err \in {"AI Service not initialized", "Failed to parse grocery items"}

\* C5: when the parser call of a parseAndAdd call fails, the whole call
\* fails and neither the list nor the catalog changes, the lines of the batch
\* that were resolved locally included.
C5_ParserFailureChangesNothing ==
    [][parserFailed(last') =>
         /\ ~last'.ok
         /\ UNCHANGED <<items, nextItemId, catalogVars>>]_vars

\* the parser failed on a batch of which a line was resolved locally
C5_Witness ==
    /\ parserFailed(last)
    /\ last.err = "Failed to parse grocery items"
    /\ last.resolved >= 1

\* C6: when the parser returns an array whose length differs from the number
\* of unresolved lines, the call fails and the catalog is not modified.
C6_LengthMismatchFailsBatch ==
    [][(last'.op = "parseAndAdd" /\ last'.responseLen >= 0
          /\ last'.responseLen # Len(last'.notFound)) =>
         /\ ~last'.ok
         /\ UNCHANGED <<items, catalogVars>>]_vars

\* C7: after a parseAndAdd call that succeeded, each term it sent to the
\* parser resolves locally (by a product name or by an alias), so that a
\* later call of these terms sends nothing to the parser.
C7_LearnedTermsResolveLocally ==
    (last.op = "parseAndAdd" /\ last.ok) =>
        \A i \in 1..Len(last.notFound) : lookup(products, aliases, last.notFound[i]) # NoProduct

\* C7 for the calls whose parser response has one item per unresolved line
C7_AlignedTermsResolveLocally ==
    (last.op = "parseAndAdd" /\ last.ok /\ last.responseLen = Len(last.notFound)) =>
        \A i \in 1..Len(last.notFound) : lookup(products, aliases, last.notFound[i]) # NoProduct

\* C8: a parseAndAdd call makes no parser call when every line resolves
\* locally and exactly one otherwise; the parser makes at most one request
\* to the external model, and a failed call is not repeated.
C8_AtMostOneParserCall ==
    last.op = "parseAndAdd" =>
        /\ last.parserCalls = (IF last.notFound = <<>> THEN 0 ELSE 1)
        /\ last.externalCalls <= last.parserCalls
        /\ (model /\ last.notFound # <<>>) => last.externalCalls = 1

\* a request to the external model failed and was the only one
C8_Witness ==
    /\ last.op = "parseAndAdd"
    /\ ~last.ok
    /\ last.parserCalls = 1
    /\ last.externalCalls = 1

\* C9: when the model is not configured, a parseAndAdd call with an
\* unresolved line makes no request to the external model, records one
\* failure of class NOT_INITIALIZED, and fails, the list and the catalog
\* staying as they were.
C9_NotInitializedFailsFast ==
    [][(last'.op = "parseAndAdd" /\ ~model /\ last'.notFound # <<>>) =>
         /\ last'.externalCalls = 0
         /\ last'.logs = <<[success |-> FALSE, errorType |-> "NOT_INITIALIZED"]>>
         /\ ~last'.ok
         /\ last'.err = "AI Service not initialized"
         /\ UNCHANGED <<items, nextItemId, catalogVars>>]_vars

\* an unconfigured parser was called while the list held an entry
C9_Witness ==
    /\ ~model
    /\ last.op = "parseAndAdd"
    /\ last.notFound # <<>>
    /\ last.err = "AI Service not initialized"
    /\ items # {}

\* C10: restoring a history record whose product id is set adds a pending
\* entry with the archived quantity when the product has no open entry, and
\* otherwise adds the archived quantity to an open entry of the product
\* without creating an entry.
C10_RestoreCreatesOrMerges ==
    [][(last'.op = "restore" /\ last'.ok) =>
         \A h \in history :
           (h.id = last'.hist /\ h.product_id # NoProduct) =>
             IF open(items, h.product_id) = {}
             THEN /\ \E e \in items' \ items :
                       /\ e.product_id = h.product_id
                       /\ e.quantity = h.quantity
                       /\ e.status = "pending"
                       /\ items' = items \cup {e}
             ELSE /\ \E o \in open(items, h.product_id) :
                       items' = (items \ {o}) \cup {[o EXCEPT !.quantity = @ + h.quantity]}
                  /\ Cardinality(items') = Cardinality(items)]_vars

\* a record was restored into an open entry of its product
C10_Witness ==
    /\ last.op = "restore"
    /\ last.ok
    /\ \E h \in history :
         /\ h.id = last.hist
         /\ h.product_id # NoProduct
         /\ \E e \in open(items, h.product_id) : e.quantity > h.quantity

\* the products whose name is the stored name of a history record, up to case
namesakes(h) == {p \in products : toLowerCase(p.name) = toLowerCase(h.product_name)}

\* C11: restoring a history record whose product id is null resolves the
\* product by the stored product name: when a product of that name exists
\* the archived quantity goes to an open entry of it (merged or created as
\* pending); when none exists the restore is rejected with an error and no
\* entry is created or changed.  In both cases the history stays as it was.
C11_RestoreFallsBackToName ==
    [][last'.op = "restore" =>
         \A h \in history :
           (h.id = last'.hist /\ h.product_id = NoProduct) =>
             /\ history' = history
             /\ IF namesakes(h) = {}
                THEN /\ ~last'.ok
                     /\ last'.err = "Product no longer exists in catalog"
                     /\ items' = items
                ELSE /\ last'.ok
                     /\ \E p \in namesakes(h) :
                          IF open(items, p.id) = {}
                          THEN \E e \in items' \ items :
                                 /\ e.product_id = p.id
                                 /\ e.quantity = h.quantity
                                 /\ e.status = "pending"
                                 /\ items' = items \cup {e}
                          ELSE \E o \in open(items, p.id) :
                                 items' = (items \ {o}) \cup
                                            {[o EXCEPT !.quantity = @ + h.quantity]}]_vars

\* a restore was rejected, the list holding an entry and the record staying
\* in the history
C11_Witness ==
    /\ last.op = "restore"
    /\ ~last.ok
    /\ items # {}
    /\ \E h \in history : h.id = last.hist /\ h.product_id = NoProduct /\ namesakes(h) = {}

\* C12: in every state every entry of the list has a quantity of at least
\* one, whatever lines (a quantity token of 0 included) and whatever
\* validated parser responses the parseAndAdd calls were given.
C12_QuantityAtLeastOne ==
    \A e \in items : e.quantity >= 1

\* C13: an entry is created with status pending, whichever path creates it
\* (parseAndAdd, addSingle, restore, add-to-groceries of the menu plan), and
\* the status of every entry is one of pending, selected, found, not_found.
C13_CreatedPendingStatusAdmissible ==
    [][\A e \in items' :
         /\ e.status \in {"pending", "selected", "found", "not_found"}
         /\ (\A o \in items : o.id # e.id) => e.status = "pending"]_vars

\* a restore has created an entry: it is pending and carries the archived
\* quantity
C13_Witness ==
    /\ last.op = "restore"
    /\ last.ok
    /\ \E h \in history : \E e \in items :
         /\ h.id = last.hist
         /\ e.product_id = h.product_id
         /\ e.status = "pending"
         /\ e.quantity = h.quantity
         /\ e.batch_id = NoBatch

(***************************************************************************)
(* The Lexical Normalizer as a function of one line.                       *)
(***************************************************************************)
LineAlphabet == {"0", "2", " ", "e"}

sTwoEggsThree == <<"2", " ", "e", "g", "g", "s", " ", "3">>

\* the lines given to parseLineForProduct: every string of at most MaxLineLen
\* characters of the alphabet, and "2 eggs 3"
NormalizerLines ==
    UNION {[1..n -> LineAlphabet] : n \in 0..MaxLineLen} \cup {sTwoEggsThree}

\* productService.parseLineForProduct(line)
ParseLine ==
    /\ last.op = "line"
    /\ last' = [last EXCEPT !.op = "parseLineForProduct",
                            !.ret = parseLineForProduct(last.arg)]
    /\ UNCHANGED <<categories, products, aliases, nextCategoryId, nextProductId,
                   items, nextItemId, history, nextHistId, model, inflight, cache>>

InitNormalizer ==
    /\ categories = {}
    /\ products = {}
    /\ aliases = {}
    /\ nextCategoryId = 1
    /\ nextProductId = 1
    /\ items = {}
    /\ nextItemId = 1
    /\ history = {}
    /\ nextHistId = 1
    /\ model = FALSE
    /\ inflight = NoCalls /\ cache = NoCache
    /\ \E line \in NormalizerLines :
         last = [NoLast EXCEPT !.op = "line", !.arg = line]

NextNormalizer == ParseLine

SpecNormalizer == InitNormalizer /\ [][NextNormalizer]_vars

\* the matches of ^(\d+)\s+(.+)$ on t: the digits are t[1..i], the white
\* space is t[i+1..j] and the remainder is t[j+1..]
LeadingMatches(t) ==
    {[quantity |-> parseInt(SubSeq(t, 1, ij[1])),
      term |-> trim(SubSeq(t, ij[2] + 1, Len(t)))] :
       ij \in {x \in (1..Len(t)) \X (1..Len(t)) :
                 /\ x[1] < x[2]
                 /\ x[2] < Len(t)
                 /\ \A k \in 1..x[1] : t[k] \in Digits
                 /\ \A k \in (x[1] + 1)..x[2] : IsSpace(t[k])}}

\* the matches of ^(.+)\s+(\d+)$ on t: the prefix is t[1..i], the white space
\* is t[i+1..j] and the digits are t[j+1..]
TrailingMatches(t) ==
    {[quantity |-> parseInt(SubSeq(t, ij[2] + 1, Len(t))),
      term |-> trim(SubSeq(t, 1, ij[1]))] :
       ij \in {x \in (1..Len(t)) \X (1..Len(t)) :
                 /\ x[1] < x[2]
                 /\ x[2] < Len(t)
                 /\ \A k \in (x[1] + 1)..x[2] : IsSpace(t[k])
                 /\ \A k \in (x[2] + 1)..Len(t) : t[k] \in Digits}}

\* the reference of the normalizer: the leading pattern, else the trailing
\* pattern, else quantity 1 and the whole trimmed line
NormalizerReference(line) ==
    LET t == trim(line)
    IN  IF LeadingMatches(t) # {} THEN LeadingMatches(t)
        ELSE IF TrailingMatches(t) # {} THEN TrailingMatches(t)
        ELSE {[quantity |-> 1, term |-> t]}

\* C14: on every line the normalizer returns what the reference gives: the
\* leading integer and the trimmed remainder when the trimmed line matches
\* ^(\d+)\s+(.+)$, else the trailing integer and the trimmed prefix when it
\* matches ^(.+)\s+(\d+)$, else 1 and the whole trimmed line; "2 eggs 3" gives
\* quantity 2 and term "eggs 3".
C14_NormalizerAgreesWithReference ==
    last.op = "parseLineForProduct" =>
        /\ NormalizerReference(last.arg) = {last.ret}
        /\ last.arg = sTwoEggsThree =>
             last.ret = [quantity |-> 2, term |-> <<"e", "g", "g", "s", " ", "3">>]

\* "2 eggs 3" has been normalized
C14_Witness ==
    /\ last.op = "parseLineForProduct"
    /\ last.arg = sTwoEggsThree
    /\ last.ret.quantity = 2

(***************************************************************************)
(* The Catalog Resolver as a function of a catalog and a term.             *)
(***************************************************************************)
sTomates == <<"T", "o", "m", "a", "t", "e", "s">>
sTomate == <<"t", "o", "m", "a", "t", "e">>
sTomat == <<"t", "o", "m", "a", "t">>
sLe == <<"l", "e">>
sEss == <<"e", "s", "s">>

\* rows of products the catalogs are drawn from
ResolverProducts ==
    {[id |-> 1, name |-> sTomates, category_id |-> 1],
     [id |-> 2, name |-> sTomate, category_id |-> 1],
     [id |-> 3, name |-> sTomat, category_id |-> 1],
     [id |-> 4, name |-> sLe, category_id |-> 1],
     [id |-> 5, name |-> sEss, category_id |-> 1]}

\* rows of product_aliases the catalogs are drawn from
ResolverAliases ==
    {[product_id |-> 3, alias |-> sTomate],
     [product_id |-> 1, alias |-> sTomat],
     [product_id |-> 2, alias |-> <<"l", "e", "s">>],
     [product_id |-> 4, alias |-> <<"e", "s">>]}

\* the terms given to Product.lookup
ResolverTerms ==
    {sTomate, <<"t", "o", "m", "a", "t", "e", "s">>, <<" ", "T", "o", "m", "a", "t", "e", "s", " ">>,
     sTomat, <<"t", "o", "m", "a", "t", "s">>, <<"l", "e", "s">>, sLe, <<"e", "s">>,
     <<"l">>, <<"e">>}

\* a catalog: product_aliases.product_id references products(id)
InitResolver ==
    /\ categories = {[id |-> 1, name |-> sFruits, sort_order |-> 1]}
    /\ products \in SUBSET ResolverProducts
    /\ aliases \in SUBSET ResolverAliases
    /\ \A a \in aliases : \E p \in products : p.id = a.product_id
    /\ nextCategoryId = 2
    /\ nextProductId = 6
    /\ items = {}
    /\ nextItemId = 1
    /\ history = {}
    /\ nextHistId = 1
    /\ model = FALSE
    /\ inflight = NoCalls /\ cache = NoCache
    /\ \E term \in ResolverTerms :
         last = [NoLast EXCEPT !.op = "term", !.arg = term]

\* Product.lookup(term)
Lookup ==
    /\ last.op = "term"
    /\ last' = [last EXCEPT !.op = "lookup", !.ret = lookup(products, aliases, last.arg)]
    /\ UNCHANGED <<categories, products, aliases, nextCategoryId, nextProductId,
                   items, nextItemId, history, nextHistId, model, inflight, cache>>

NextResolver == Lookup

SpecResolver == InitResolver /\ [][NextResolver]_vars

\* the variants of a lower-cased trimmed term, in order
ReferenceVariants(t) ==
    IF Len(t) > 2 /\ t[Len(t)] = "s"
    THEN IF Len(t) > 3 /\ t[Len(t) - 1] = "e"
         THEN <<t, SubSeq(t, 1, Len(t) - 1), SubSeq(t, 1, Len(t) - 2)>>
         ELSE <<t, SubSeq(t, 1, Len(t) - 1)>>
    ELSE <<t, t \o <<"s">>>>

\* the products hit by probe k of the ordered sequence: probe 2i - 1 matches
\* variant i against the names, probe 2i against the aliases
ProbeHits(prods, als, variants, k) ==
    LET v == variants[(k + 1) \div 2]
    IN  IF k % 2 = 1
        THEN {p.id : p \in {q \in prods : toLowerCase(q.name) = toLowerCase(v)}}
        ELSE {a.product_id : a \in {b \in als : toLowerCase(b.alias) = toLowerCase(v)}}

namedTomates(prods, id) ==
    \E p \in prods : p.id = id /\ toLowerCase(p.name) = toLowerCase(sTomates)

\* C15: the resolver returns the first hit of the ordered sequence (variant 1
\* by name, variant 1 by alias, variant 2 by name, ...), the matches being
\* exact and case-insensitive, and none when no probe hits; "tomates" resolves
\* to a product named "Tomates" whenever there is one, and so does "tomate"
\* when no name or alias is "tomate".
C15_ResolverFirstHit ==
    last.op = "lookup" =>
        LET variants == ReferenceVariants(trim(toLowerCase(last.arg)))
            probes == 1..(2 * Len(variants))
        IN  /\ last.ret = NoProduct =>
                 \A k \in probes : ProbeHits(products, aliases, variants, k) = {}
            /\ last.ret # NoProduct =>
                 \E k \in probes :
                     /\ last.ret \in ProbeHits(products, aliases, variants, k)
                     /\ \A j \in 1..(k - 1) : ProbeHits(products, aliases, variants, j) = {}
            /\ (\E p \in products : p.name = sTomates) =>
                 /\ last.arg = toLowerCase(sTomates) => namedTomates(products, last.ret)
                 /\ (/\ last.arg = sTomate
                     /\ \A p \in products : p.name # sTomate
                     /\ \A a \in aliases : a.alias # sTomate)
                      => namedTomates(products, last.ret)

\* "tomate" has resolved to the product named "Tomates" through its second
\* variant, in a catalog where a later probe hits another product
C15_Witness ==
    /\ last.op = "lookup"
    /\ last.arg = sTomate
    /\ last.ret = 1
    /\ aliases # {}

(***************************************************************************)
(* The External Parser Adapter on its own: one call of parseGroceryItems,  *)
(* and the log writes it starts without awaiting them.                     *)
(***************************************************************************)
\* item.quantity of a raw item: absent (parseInt gives NaN) or an integer
RawQuantities == {<<>>} \cup {<<n>> : n \in (-MaxQty)..MaxQty}

QuantityItems == {[article |-> sKiwi, category |-> sBio, quantity |-> q] : q \in RawQuantities}

\* an error of the external capability whose message contains "parse"
AdapterErrors == {"Failed to parse stream"}

AdapterResponses ==
    ResponsesOf(QuantityItems \cup AIItems, MaxLines)
      \cup [kind : {"throw"}, msg : AdapterErrors, items : {<<>>}]

InitAdapter ==
    /\ categories = {}
    /\ products = {}
    /\ aliases = {}
    /\ nextCategoryId = 1
    /\ nextProductId = 1
    /\ items = {}
    /\ nextItemId = 1
    /\ history = {}
    /\ nextHistId = 1
    /\ model \in BOOLEAN
    /\ inflight = NoCalls /\ cache = NoCache
    /\ last = NoLast

\* AILog.create(...) as trackRequest leaves it: a promise nobody awaits
AILogCreate(entry) ==
    [success |-> entry.success, errorType |-> entry.errorType, write |-> "pending"]

\* parseGroceryItems with trackRequest awaiting AILog.create and letting its
\* rejection through
ParseGroceryItemsAwaitingLog ==
    /\ last.op = "init"
    /\ \E response \in AdapterResponses : \E write \in {"persisted", "failed"} :
         \E r \in {parseGroceryItems(model, response)} :
           last' = [NoLast EXCEPT
                      !.op = "parseGroceryItems", !.arg = response,
                      !.ok = r.ok /\ (write = "persisted" \/ r.logs = <<>>),
                      !.err = IF write = "failed" /\ r.logs # <<>>
                              THEN "Failed to log to DB" ELSE r.err,
                      !.ret = IF write = "failed" /\ r.logs # <<>> THEN <<>> ELSE r.items,
                      !.externalCalls = r.externalCalls,
                      !.logs = [i \in 1..Len(r.logs) |->
                                  [AILogCreate(r.logs[i]) EXCEPT !.write = write]]]
    /\ cache' = promptCache(cache, categories, model)
    /\ UNCHANGED <<categories, products, aliases, nextCategoryId, nextProductId,
                   items, nextItemId, history, nextHistId, model, inflight>>

\* aiService.parseGroceryItems(groceryText): the call returns or throws while
\* the log writes it started are in flight
ParseGroceryItems ==
    /\ last.op = "init"
    /\ \E response \in AdapterResponses :
         \E r \in {parseGroceryItems(model, response)} :
           last' = [NoLast EXCEPT
                      !.op = "parseGroceryItems", !.arg = response,
                      !.ok = r.ok, !.err = r.err, !.ret = r.items,
                      !.externalCalls = r.externalCalls,
                      !.logs = [i \in 1..Len(r.logs) |-> AILogCreate(r.logs[i])]]
    /\ cache' = promptCache(cache, categories, model)
    /\ UNCHANGED <<categories, products, aliases, nextCategoryId, nextProductId,
                   items, nextItemId, history, nextHistId, model, inflight>>

\* the promise of AILog.create settles: the row is written, or the write
\* fails and .catch prints the message
SettleLogWrite ==
    /\ last.op = "parseGroceryItems"
    /\ \E i \in 1..Len(last.logs) : \E write \in {"persisted", "failed"} :
         /\ last.logs[i].write = "pending"
         /\ last' = [last EXCEPT !.logs[i].write = write]
    /\ UNCHANGED <<categories, products, aliases, nextCategoryId, nextProductId,
                   items, nextItemId, history, nextHistId, model, inflight, cache>>

NextAdapter == ParseGroceryItems \/ SettleLogWrite

SpecAdapter == InitAdapter /\ [][NextAdapter]_vars

\* C16: every item of an accepted parser response comes back with a quantity
\* of at least 1, and with quantity 1 when the response quantity is absent,
\* zero or negative.
C16_AdapterQuantityPositive ==
    (last.op = "parseGroceryItems" /\ last.ok) =>
        \A i \in 1..Len(last.ret) :
            /\ last.ret[i].quantity >= 1
            /\ (\/ last.arg.items[i].quantity = <<>>
                \/ last.arg.items[i].quantity[1] <= 0) => last.ret[i].quantity = 1

\* C17: every parser call, whatever its outcome, records a log entry that
\* carries the success flag of the call and an error classification.
C17_EveryCallLogged ==
    last.op = "parseGroceryItems" =>
        /\ Len(last.logs) >= 1
        /\ \A i \in 1..Len(last.logs) :
             /\ last.logs[i].success = last.ok
             /\ last.ok \/ last.logs[i].errorType # "none"

\* C18: the call returns or throws with its log writes still in flight, and
\* a log write that fails later leaves the value returned or the error raised
\* as it was.
C18_LogFailureKeepsOutcome ==
    [][/\ (last.op = "init" /\ last'.op = "parseGroceryItems") =>
            \A i \in 1..Len(last'.logs) : last'.logs[i].write = "pending"
       /\ (last.op = "parseGroceryItems" /\ last'.op = "parseGroceryItems") =>
            /\ last'.ok = last.ok
            /\ last'.err = last.err
            /\ last'.ret = last.ret]_vars

\* the log write of a call that returned items has failed
C18_Witness ==
    /\ last.op = "parseGroceryItems"
    /\ last.ok
    /\ last.ret # <<>>
    /\ \E i \in 1..Len(last.logs) : last.logs[i].write = "failed"

\* C19: a history record is a snapshot: no step (product rename, product
\* category change, category edit, product deletion, addSingle, updateStatus,
\* restore, another completeShopping) changes its product name, category
\* name, quantity, status or session id, and its product id either stays or
\* becomes null.
C19_HistoryRecordImmutable ==
    [][\A h \in history : \E g \in history' :
         /\ g.id = h.id
         /\ g.product_name = h.product_name
         /\ g.category_name = h.category_name
         /\ g.quantity = h.quantity
         /\ g.status = h.status
         /\ g.shopping_session_id = h.shopping_session_id
         /\ g.product_id \in {h.product_id, NoProduct}]_vars

\* the product of a history record has been renamed and its category edited,
\* and the record still carries the names it was archived with
C19_Witness ==
    /\ last.op \in {"updateProduct", "editCategory"}
    /\ last.ok
    /\ \E h \in history : \E p \in products : \E c \in categories :
         /\ h.product_id = p.id
         /\ p.category_id = c.id
         /\ h.product_name = sPom
         /\ p.name = sKiwi
         /\ h.category_name = sFruits
         /\ c.name = sBio

\* C20: a parseAndAdd call applies all of its catalog and list writes or none
\* of them: a call that fails partway through learning or reconciling leaves
\* the catalog and the list as they were.
C20_FailedCallLeavesNoWrites ==
    [][(last'.op = "parseAndAdd" /\ ~last'.ok) =>
         UNCHANGED <<categories, products, aliases, nextCategoryId, nextProductId,
                     items, nextItemId>>]_vars

(***************************************************************************)
(* The parser call in three steps: the request to the external capability, *)
(* the response when the capability gives one, and the rest of the call.   *)
(***************************************************************************)
\* parseGroceryItems up to `await this.model.generateContent(prompt)`; on a
\* service that is not initialized the call fails before any request
GenerateContent ==
    /\ last.op = "init"
    /\ IF model
       THEN last' = [NoLast EXCEPT !.op = "generateContent", !.externalCalls = 1]
       ELSE \E r \in {parseGroceryItems(FALSE, NoResponse)} :
              last' = [NoLast EXCEPT
                         !.op = "parseGroceryItems", !.ok = r.ok, !.err = r.err,
                         !.ret = r.items, !.externalCalls = r.externalCalls,
                         !.logs = [i \in 1..Len(r.logs) |-> AILogCreate(r.logs[i])]]
    /\ cache' = promptCache(cache, categories, model)
    /\ UNCHANGED <<categories, products, aliases, nextCategoryId, nextProductId,
                   items, nextItemId, history, nextHistId, model, inflight>>

\* the external capability settles the promise of generateContent: nothing in
\* the program makes it do so
ExternalResponds ==
    /\ last.op = "generateContent"
    /\ \E response \in AdapterResponses :
         last' = [last EXCEPT !.op = "response", !.arg = response]
    /\ UNCHANGED <<categories, products, aliases, nextCategoryId, nextProductId,
                   items, nextItemId, history, nextHistId, model, inflight, cache>>

\* the rest of parseGroceryItems once the promise has settled
ValidateResponse ==
    /\ last.op = "response"
    /\ \E r \in {parseGroceryItems(TRUE, last.arg)} :
         last' = [last EXCEPT
                    !.op = "parseGroceryItems", !.ok = r.ok, !.err = r.err,
                    !.ret = r.items, !.externalCalls = r.externalCalls,
                    !.logs = [i \in 1..Len(r.logs) |-> AILogCreate(r.logs[i])]]
    /\ UNCHANGED <<categories, products, aliases, nextCategoryId, nextProductId,
                   items, nextItemId, history, nextHistId, model, inflight, cache>>

NextPending == GenerateContent \/ ExternalResponds \/ ValidateResponse \/ SettleLogWrite

\* the event loop runs every continuation of the program that is ready; the
\* external capability is under no obligation
SpecPending ==
    /\ InitAdapter
    /\ [][NextPending]_vars
    /\ WF_vars(GenerateContent)
    /\ WF_vars(ValidateResponse)
    /\ WF_vars(SettleLogWrite)

\* C21: every parser call eventually completes, by a result or by a failure,
\* also when the external capability never responds.
C21_ParserCallCompletes ==
    (last.op = "generateContent") ~> (last.op = "parseGroceryItems")

\* C22: for every non-empty line the normalizer returns a quantity of at
\* least 1, also when the leading or trailing integer token is 0.
C22_NormalizerQuantityAtLeastOne ==
    (last.op = "parseLineForProduct" /\ trim(last.arg) # <<>>) =>
        last.ret.quantity >= 1

(***************************************************************************)
(* Calls that run at the same time.  A handler reads, awaits, and writes   *)
(* later what it computed from the rows it read; the statements of other   *)
(* handlers run in between.                                                *)
(***************************************************************************)
\* existing.save() / item.save() of addItemByProduct: the UPDATE writes the
\* columns of the row that was read, with the quantity computed from it, and
\* the INSERT adds a row.  Returns [items, nextItemId].
saveItemMerging(its, nextId, call) ==
    LET out == CHOOSE o \in addItemByProduct(its, nextId, call.product_id, call.quantity, NoNote) : TRUE
    IN  [items |-> out.items, nextItemId |-> out.nextItemId]

saveItem(its, nextId, call) ==
    IF call.existing # {}
    THEN LET existing == CHOOSE e \in call.existing : TRUE
         IN  [items |-> {IF r.id = existing.id
                         THEN [existing EXCEPT !.quantity = @ + call.quantity] ELSE r
                         : r \in its},
              nextItemId |-> nextId]
    ELSE [items |-> its \cup {GroceryItem(nextId, call.product_id, call.quantity, NoBatch, NoNote)},
          nextItemId |-> nextId + 1]

RaceQuantities == {1}

\* addItemByProduct up to `await GroceryItem.findByProduct(userId, productId)`
FindOpenEntry(c) ==
    /\ inflight[c].pc = "idle"
    /\ \E p \in products : \E quantity \in RaceQuantities :
       \E existing \in (IF findByProduct(items, p.id) = {} THEN {{}}
                        ELSE {{e} : e \in findByProduct(items, p.id)}) :
         inflight' = [inflight EXCEPT ![c] =
                        [NoCall EXCEPT !.op = "addSingle", !.pc = "save",
                                       !.product_id = p.id, !.quantity = quantity,
                                       !.existing = existing]]
    /\ UNCHANGED <<catalogVars, items, nextItemId, history, nextHistId, model, cache, last>>

\* addItemByProduct from `await existing.save()` or `await item.save()` on;
\* last.arg is what the call had read and last.ret the row its UPDATE replaced
SaveEntry(c) ==
    /\ inflight[c].pc = "save"
    /\ \E out \in {saveItem(items, nextItemId, inflight[c])} :
         /\ WithinBounds(out.items, out.nextItemId)
         /\ items' = out.items
         /\ nextItemId' = out.nextItemId
    /\ inflight' = [inflight EXCEPT ![c] = NoCall]
    /\ last' = [NoLast EXCEPT !.op = "addSingle", !.arg = inflight[c],
                               !.ret = {r \in items : {r.id} = {e.id : e \in inflight[c].existing}}]
    /\ UNCHANGED <<catalogVars, history, nextHistId, model, cache>>

\* completeShoppingSession up to the two findByStatus queries, which run on
\* the pool
ReadItemsToArchive(c) ==
    /\ inflight[c].pc = "idle"
    /\ \E sessionId \in SessionIds :
       \E foundItems \in Orders(findByStatus(items, "found")) :
       \E notFoundItems \in Orders(findByStatus(items, "not_found")) :
         inflight' = [inflight EXCEPT ![c] =
                        [NoCall EXCEPT !.op = "completeShopping", !.pc = "archive",
                                       !.foundItems = foundItems,
                                       !.notFoundItems = notFoundItems,
                                       !.sessionId = sessionId]]
    /\ UNCHANGED <<catalogVars, items, nextItemId, history, nextHistId, model, cache, last>>

\* the INSERT and DELETE statements of completeShoppingSession and the
\* COMMIT that makes them visible
ArchiveItems(c) ==
    /\ inflight[c].pc = "archive"
    /\ LET call == inflight[c]
           out == completeShoppingSession(
                      [items |-> items, history |-> history, nextHistId |-> nextHistId],
                      categories, products, call.foundItems, call.notFoundItems,
                      call.sessionId, 0)
       IN  /\ nextHistId + Len(call.foundItems) + Len(call.notFoundItems) <= MaxHistId + 1
           /\ items' = out.db.items
           /\ history' = out.db.history
           /\ nextHistId' = out.db.nextHistId
           /\ last' = [NoLast EXCEPT !.op = "completeShopping",
                         !.sessionId = call.sessionId,
                         !.archivedCount = out.archivedCount,
                         !.foundCount = out.foundCount,
                         !.notFoundCount = out.notFoundCount]
    /\ inflight' = [inflight EXCEPT ![c] = NoCall]
    /\ UNCHANGED <<catalogVars, nextItemId, model, cache>>

\* Two callers adding products while entries are ticked off.
NextRace ==
    \/ \E c \in Callers : FindOpenEntry(c)
    \/ \E c \in Callers : SaveEntry(c)
    \/ MarkFound

SpecRace == InitOneProduct /\ [][NextRace]_vars

\* Two callers completing the shopping while entries are added and their
\* status is changed.
NextArchiveRace ==
    \/ \E c \in Callers : ReadItemsToArchive(c)
    \/ \E c \in Callers : ArchiveItems(c)
    \/ AddToGroceries
    \/ UpdateStatus

SpecArchiveRace == InitOneProduct /\ [][NextArchiveRace]_vars

\* C23: the merge-or-insert step is a read followed, later, by a write of
\* what was computed from the rows read: a call that read no open entry
\* inserts one, and a call that read an entry sets its quantity to the
\* quantity read plus its own, whatever other calls wrote in between.  Two
\* calls adding the same product can therefore leave two open entries, or an
\* entry whose quantity holds one of their two additions only.
C23_SaveWritesWhatWasRead ==
    [][(\E c \in Callers : inflight[c].pc = "save" /\ inflight'[c].pc = "idle") =>
         LET call == last'.arg
         IN  /\ call.existing = {} =>
                  \E e \in items' :
                      /\ e.id = nextItemId
                      /\ e.product_id = call.product_id
                      /\ e.quantity = call.quantity
                      /\ e.status = "pending"
             /\ \A e \in call.existing : \A r \in items' :
                  r.id = e.id => r.quantity = e.quantity + call.quantity]_vars

\* the product has two open entries, and the call that finished last has
\* replaced a quantity that held another call's addition by the quantity it
\* had read plus its own
C23_Witness ==
    /\ last.op = "addSingle"
    /\ \E e1 \in items : \E e2 \in items :
         /\ e1.id # e2.id
         /\ e1.product_id = e2.product_id
         /\ e1.status # "found"
         /\ e2.status # "found"
    /\ \E e \in last.arg.existing : \E r \in last.ret : \E now \in items :
         /\ now.id = e.id
         /\ r.quantity > e.quantity
         /\ now.quantity = e.quantity + last.arg.quantity
         /\ now.quantity = r.quantity

\* C24: an entry is archived with the status and the quantity it has when it
\* is deleted: no entry that is pending or selected at that moment is
\* archived, also when its status changes while completeShopping runs.
C24_ArchivedAsDeleted ==
    [][\A e \in items :
         (\A r \in items' : r.id # e.id) =>
            /\ e.status \in {"found", "not_found"}
            /\ \E h \in history' \ history :
                 /\ h.product_id = e.product_id
                 /\ h.quantity = e.quantity
                 /\ h.status = e.status]_vars

\* C25: each entry is archived into at most one history record: a
\* completeShopping call writes as many records as it removes entries, and
\* its archivedCount is that number, also when two calls run at the same
\* time.
C25_ArchivedAtMostOnce ==
    [][(\E c \in Callers : inflight[c].pc = "archive" /\ inflight'[c].pc = "idle") =>
         /\ Cardinality(history') - Cardinality(history) =
              Cardinality(items) - Cardinality(items')
         /\ last'.archivedCount = Cardinality(items) - Cardinality(items')]_vars

(***************************************************************************)
(* Learning from responses that name two different products.               *)
(***************************************************************************)
\* an item that names a product of the catalog under another category
aiFig == [article |-> sFig, category |-> sBio, quantity |-> <<>>]

LearnItems == {aiKiwi, aiFig}

\* POST /parse when the external capability names two products
ParseAndAddLearn == ParseAndAddWith(LearnItems)

InitLearn == Seeded /\ model = TRUE /\ inflight = NoCalls /\ cache = NoCache

NextLearn == ParseAndAddLearn

SpecLearn == InitLearn /\ [][NextLearn]_vars

\* C26: an alias that conflicts with an existing alias does not fail the
\* batch: a parseAndAdd call whose parser response has one valid item for
\* each unresolved line succeeds and reconciles every item; an alias keeps
\* the product it points to, so that the alias of a term sent twice points
\* to the product learned for its first line (unless the term is that
\* product's name); and an alias text has one product at most.
C26_AliasConflictSwallowed ==
    [][/\ \A a \in aliases' : \A b \in aliases' : a.alias = b.alias => a = b
       /\ \A a \in aliases : a \in aliases'
       /\ (last'.op = "parseAndAdd" /\ last'.responseLen = Len(last'.notFound)
             /\ last'.responseLen > 0) =>
            /\ last'.ok
            /\ last'.fromAI = last'.responseLen
            /\ \A i \in 1..Len(last'.notFound) : \A a \in aliases' :
                 (/\ a.alias = trim(toLowerCase(last'.notFound[i]))
                  /\ \A j \in 1..(i - 1) : last'.notFound[j] # last'.notFound[i]
                  /\ \A p \in products' :
                       p.id = last'.allItems[last'.resolved + i].product_id =>
                          toLowerCase(p.name) # a.alias)
                   => a.product_id = last'.allItems[last'.resolved + i].product_id]_vars

\* a batch was learned in which a line's term was already the alias of
\* another product than the one learned for it
C26_Witness ==
    /\ last.op = "parseAndAdd"
    /\ last.ok
    /\ last.fromAI = Len(last.notFound)
    /\ \E i \in 1..Len(last.notFound) : \E a \in aliases :
         /\ a.alias = trim(toLowerCase(last.notFound[i]))
         /\ a.product_id # last.allItems[last.resolved + i].product_id
         /\ \A p \in products :
              p.id = last.allItems[last.resolved + i].product_id =>
                 toLowerCase(p.name) # a.alias

(***************************************************************************)
(* The Catalog Learner on its own, on a catalog that is also edited        *)
(* through the category route.                                             *)
(***************************************************************************)
sBioLower == <<"b", "i", "o">>

LearnArticles == {sKiwi, <<"k", "i", "w", "i">>, sFig}

LearnCategories == {sBio, sBioLower, sExo}

LearnTerms == {<<"k", "i", "w">>, <<"f", "i", "g", "s">>}

\* productService.learnFromAI(parsed.article, parsed.category, original.term)
LearnFromAIWith(articles, categoryNames, terms) ==
    \E article \in articles : \E category \in categoryNames :
    \E term \in terms :
    \E learned \in {learnFromAI(Catalog, article, category, term)} :
      /\ learned.catalog.nextCategoryId <= MaxCategoryId + 1
      /\ categories' = learned.catalog.categories
      /\ products' = learned.catalog.products
      /\ aliases' = learned.catalog.aliases
      /\ nextCategoryId' = learned.catalog.nextCategoryId
      /\ nextProductId' = learned.catalog.nextProductId
      /\ last' = [NoLast EXCEPT !.op = "learnFromAI",
                    !.arg = [article |-> article, category |-> category, term |-> term],
                    !.ret = learned.id]
      /\ UNCHANGED <<items, nextItemId, history, nextHistId, model, inflight, cache>>

LearnFromAI == LearnFromAIWith(LearnArticles, LearnCategories, LearnTerms)

NewCategoryNames == {sBio, sBioLower}

\* POST /products/categories: Category.create; UNIQUE(name) compares the
\* names as they are written
CreateCategory ==
    \E name \in NewCategoryNames :
      IF \E c \in categories : c.name = name
      THEN /\ last' = [NoLast EXCEPT !.op = "createCategory", !.ok = FALSE,
                                     !.err = "Failed to create category"]
           /\ UNCHANGED <<catalogVars, items, nextItemId, history, nextHistId, model, inflight, cache>>
      ELSE /\ nextCategoryId <= MaxCategoryId
           /\ categories' = categories \cup
                  {[id |-> nextCategoryId, name |-> name, sort_order |-> DefaultSortOrder]}
           /\ nextCategoryId' = nextCategoryId + 1
           /\ cache' = clearCategoryCache
           /\ last' = [NoLast EXCEPT !.op = "createCategory"]
           /\ UNCHANGED <<products, aliases, nextProductId, items, nextItemId, history,
                          nextHistId, model, inflight>>

NextLearner == LearnFromAI \/ CreateCategory

SpecLearner == InitNoModel /\ [][NextLearner]_vars

\* C27: after learnFromAI(article, categoryName, term), exactly one product
\* has a name equal to article up to case, exactly one category has a name
\* equal to categoryName up to case, and that product is in that category.
C27_LearnedProductAndCategoryUnique ==
    last.op = "learnFromAI" =>
        LET named == {p \in products : toLowerCase(p.name) = toLowerCase(last.arg.article)}
            cats == {c \in categories : toLowerCase(c.name) = toLowerCase(last.arg.category)}
        IN  /\ Cardinality(named) = 1
            /\ Cardinality(cats) = 1
            /\ \A p \in named : \A c \in cats : p.id = last.ret /\ p.category_id = c.id

(***************************************************************************)
(* The category cache of the adapter, on a catalog changed by the learner  *)
(* and by the category routes.                                             *)
(***************************************************************************)
\* AIService.buildGroceryParsingPrompt: the prompt lists the names that
\* getCategoryNames returns
BuildGroceryParsingPrompt ==
    /\ model
    /\ \E r \in {getCategoryNames(cache, categories)} :
         /\ cache' = r.cache
         /\ last' = [NoLast EXCEPT !.op = "buildGroceryParsingPrompt", !.ret = r.names]
    /\ UNCHANGED <<catalogVars, items, nextItemId, history, nextHistId, model, inflight>>

\* learnFromAI for an item of the category Bio
LearnBio == LearnFromAIWith({sKiwi}, {sBio}, {<<"k", "i", "w">>})

\* DELETE /products/categories/:id: refused while the category has products
DeleteCategory ==
    \E c \in categories :
      IF \E p \in products : p.category_id = c.id
      THEN /\ last' = [NoLast EXCEPT !.op = "deleteCategory", !.ok = FALSE,
                                     !.err = "Cannot delete category with products"]
           /\ UNCHANGED <<catalogVars, items, nextItemId, history, nextHistId, model,
                          inflight, cache>>
      ELSE /\ categories' = categories \ {c}
           /\ cache' = clearCategoryCache
           /\ last' = [NoLast EXCEPT !.op = "deleteCategory"]
           /\ UNCHANGED <<products, aliases, nextCategoryId, nextProductId, items,
                          nextItemId, history, nextHistId, model, inflight>>

\* five minutes go by on the clock that Date.now() reads
FiveMinutesPass ==
    /\ cache.cacheExpiry = "future"
    /\ cache' = [cache EXCEPT !.cacheExpiry = "past"]
    /\ UNCHANGED <<catalogVars, items, nextItemId, history, nextHistId, model, inflight,
                   last>>

NextCache ==
    \/ BuildGroceryParsingPrompt
    \/ LearnBio
    \/ CreateCategory
    \/ EditCategory
    \/ DeleteCategory
    \/ FiveMinutesPass

SpecCache == InitLearn /\ [][NextCache]_vars

\* C28: in every state the category names that the next parser call puts in
\* its prompt are the names of the categories table: every change of the
\* table, by a category route or by the learner, has emptied the cache.
C28_NextVocabularyIsLive ==
    getCategoryNames(cache, categories).names = findAllNames(categories)

\* the entries of the list that a step changed
modified == {e \in items : e \notin items'}

\* C29: a successful parseAndAdd, addSingle or restore removes no entry and
\* changes at most one entry (parseAndAdd: one for each line of the batch, of
\* the product of a line), an open one, and of that entry only the
\* quantity, the batch id (parseAndAdd) and the note (addSingle): the
\* status stays, so an entry in not_found that took more quantity is still in
\* not_found; and a successful completeShopping archives every entry in
\* not_found with the quantity it then has.
C29_MergeKeepsStatus ==
    [][/\ (last'.op \in {"parseAndAdd", "addSingle", "restore"} /\ last'.ok) =>
            /\ \A e \in modified :
                  /\ e.status # "found"
                  /\ \E m \in items' :
                        /\ m.id = e.id
                        /\ m.product_id = e.product_id
                        /\ m.status = e.status
                        /\ (last'.op # "parseAndAdd" => m.batch_id = e.batch_id)
                        /\ (last'.op # "addSingle" => m.note = e.note)
            /\ (last'.op # "parseAndAdd" => Cardinality(modified) <= 1)
            /\ (last'.op = "parseAndAdd" =>
                  /\ Cardinality(modified) <= Len(last'.allItems)
                  /\ \A e \in modified :
                        \E i \in 1..Len(last'.allItems) :
                          last'.allItems[i].product_id = e.product_id)
       /\ (last'.op = "completeShopping" /\ last'.ok) =>
            \A e \in items : e.status = "not_found" =>
              /\ e \notin items'
              /\ \E h \in history' \ history :
                    /\ h.product_id = e.product_id
                    /\ h.quantity = e.quantity
                    /\ h.status = "not_found"]_vars

\* a record was restored into the one open entry of its product, which is in
\* not_found and holds more than the record's quantity
C29_Witness ==
    /\ last.op = "restore"
    /\ last.ok
    /\ \E h \in history :
         /\ h.id = last.hist
         /\ h.product_id # NoProduct
         /\ \E e \in items :
               /\ open(items, h.product_id) = {e}
               /\ e.status = "not_found"
               /\ e.quantity > h.quantity

(***************************************************************************)
(* Restoring records of any quantity the list can archive.                 *)
(***************************************************************************)
\* parseAndAdd with responses of a negative quantity, addSingle, and the
\* shopping session that archives and restores
ParseZeroKiwi == ParseAndAddOf({<<"0", " ", "k", "i", "w", "i">>}, {aiNegative})

NextAnyQuantity ==
    \/ ParseZeroKiwi
    \/ AddSingle
    \/ MarkFound
    \/ CompleteShopping
    \/ Restore

SpecAnyQuantity == InitLearn /\ [][NextAnyQuantity]_vars

\* the quantity in open entries of a product
RECURSIVE sumQuantity(_)
sumQuantity(es) ==
    IF es = {} THEN 0
    ELSE LET e == CHOOSE x \in es : TRUE IN e.quantity + sumQuantity(es \ {e})

====
